---- MODULE Spec2Model ----
(***************************************************************************)
(* A model of three pieces of the CourtListener backend:                   *)
(*   - the manifest export driver (make_aws_manifest_files.Command.handle) *)
(*     with its Redis checkpoint, its paginated query and its S3 uploads;  *)
(*   - MaintenanceModeMiddleware;                                          *)
(*   - sort_columbia_opinions.                                             *)
(***************************************************************************)
EXTENDS Integers, Sequences, FiniteSets, TLC

(***************************************************************************)
(* Bounds of the model.                                                    *)
(***************************************************************************)
MaxId == 4          \* the table holds a subset of IdStride * (1..MaxId)
IdStride == 7       \* identifiers are sparse and reach two digits
MaxBatch == 3       \* --query-batch-size ranges over 1..MaxBatch
MaxLambda == 2      \* --lambda-record-size ranges over 1..MaxLambda
MaxRuns == 3        \* invocations of the command by one operator
ConcIds == 2        \* two processes at once: the table is within IdStride * (1..ConcIds)
ConcRuns == 2       \* two processes at once: invocations in one behaviour
ConcBatch == 1      \* two processes at once: --query-batch-size is ConcBatch

Procs == {1, 2}     \* operating-system processes that may run the command

IdUniverse == {IdStride * k : k \in 1..MaxId}

(***************************************************************************)
(* Python values that cross the Redis / SQL boundary.  Redis stores and    *)
(* returns strings (the CACHE interface decodes responses), Python keeps   *)
(* ints; a string is a sequence of one-character strings.                  *)
(***************************************************************************)
None == [t |-> "none", v |-> <<>>]
PyStr(chars) == [t |-> "str", v |-> chars]
PyInt(n) == [t |-> "int", v |-> n]

DigitChars == <<"0", "1", "2", "3", "4", "5", "6", "7", "8", "9">>

DigitOf(c) == (CHOOSE i \in 1..10 : DigitChars[i] = c) - 1

RECURSIVE Str(_)
\* str(n) / f"{n}" / redis-py's encoding of an int: the decimal digits of n
Str(n) == IF n < 10 THEN <<DigitChars[n + 1]>>
          ELSE Str(n \div 10) \o <<DigitChars[(n % 10) + 1]>>

RECURSIVE ParseInt(_)
\* int(s) for a string of decimal digits
ParseInt(s) == IF Len(s) = 0 THEN 0
               ELSE 10 * ParseInt(SubSeq(s, 1, Len(s) - 1)) + DigitOf(s[Len(s)])

\* Python truthiness of None, a str and an int
Truthy(x) == CASE x.t = "none" -> FALSE
               [] x.t = "str" -> Len(x.v) > 0
               [] x.t = "int" -> x.v # 0

\* int(x or 0) where x is what hget returned
IntOrZero(x) == IF Truthy(x) THEN ParseInt(x.v) ELSE 0

\* the number a query parameter denotes: an int as is, a string cast by SQL
SqlInt(x) == IF x.t = "int" THEN x.v ELSE ParseInt(x.v)

(***************************************************************************)
(* Sets and sequences.                                                     *)
(***************************************************************************)
SetMax(S) == CHOOSE x \in S : \A y \in S : y <= x
SetMin(S) == CHOOSE x \in S : \A y \in S : x <= y

RECURSIVE SortedSeq(_)
\* ORDER BY id
SortedSeq(S) == IF S = {} THEN <<>>
                ELSE <<SetMin(S)>> \o SortedSeq(S \ {SetMin(S)})

Range(s) == {s[i] : i \in 1..Len(s)}

Take(s, n) == SubSeq(s, 1, IF n < Len(s) THEN n ELSE Len(s))
Drop(s, n) == SubSeq(s, n + 1, Len(s))

(***************************************************************************)
(* State.                                                                  *)
(***************************************************************************)
VARIABLES
    \* the export driver's environment
    table,                    \* ids of the rows the record type's filter matches
    query_batch_size,         \* options["query_batch_size"]
    lambda_record_size,       \* options["lambda_record_size"]
    redis,                    \* the hash {record_type}_import_status
    s3,                       \* the bucket: a set of [Key, Body]
    \* Command.handle's locals, per process
    pc, last_pk, total_number_of_records, counter, rows, record_count,
    csvfile, records_processed,
    \* history of the export, kept for the properties only
    hist,
    \* MaintenanceModeMiddleware
    settings,                 \* django.conf.settings
    mw,                       \* the middleware instance and what it has served
    \* sort_columbia_opinions
    opinions,                 \* the Opinion rows, by id
    srt                       \* the function's position and locals

driverVars == <<table, query_batch_size, lambda_record_size, redis, s3, pc,
                last_pk, total_number_of_records, counter, rows, record_count,
                csvfile, records_processed, hist>>

localVars == <<last_pk, total_number_of_records, counter, rows, record_count,
               csvfile, records_processed>>

otherVars == <<settings, mw, opinions, srt>>

vars == <<driverVars, otherVars>>

\* the middleware and the ordering command are not in use
IdleMiddleware ==
    /\ settings = [MAINTENANCE_MODE_ENABLED |-> FALSE,
                   MAINTENANCE_MODE_ALLOW_STAFF |-> FALSE]
    /\ mw = [state |-> "unbuilt", log |-> <<>>]

IdleSort ==
    /\ opinions = <<>>
    /\ srt = [pc |-> "idle", todo |-> <<>>, cluster |-> 0, branch |-> "none",
              loaded |-> <<>>, ordered_opinions |-> <<>>, order_key |-> 0,
              completed |-> 0]

(***************************************************************************)
(* The export: make_aws_manifest_files.py                                  *)
(***************************************************************************)
record_type == <<"o">>
bucket_name == <<"b", "k", "t">>

\* the Redis hash with no field: the key does not exist
EmptyHash == [last_pk |-> None, total_records |-> None,
              next_iteration_counter |-> None, records_processed |-> None]

KeyExists(h) == h # EmptyHash

\* get_total_number_of_records: SELECT count(*) ... WHERE <filter>
get_total_number_of_records(t) == Cardinality(t)

\* Page with the resumption filter written id >= %s
PageInclusive(t, lpk, limit) ==
    Take(SortedSeq(IF Truthy(lpk) THEN {i \in t : i >= SqlInt(lpk)} ELSE t),
         limit)

\* get_custom_query + cursor.execute + fetchall:
\*   WHERE <filter>               ORDER BY id LIMIT limit   if not last_pk
\*   WHERE id > %s AND <filter>   ORDER BY id LIMIT limit   otherwise
Page(t, lpk, limit) ==
    Take(SortedSeq(IF Truthy(lpk) THEN {i \in t : i > SqlInt(lpk)} ELSE t),
         limit)

\* PageIsLast taking a short page for the last one
PageIsShort(n, limit) == n < limit

\* line 203: if not record_count: break
PageIsLast(n, limit) == n = 0

RECURSIVE batched(_, _)
\* itertools.batched(rows, n)
batched(s, n) == IF Len(s) = 0 THEN <<>>
                 ELSE <<Take(s, n)>> \o batched(Drop(s, n), n)

\* FileName without the single-element case
FileNameAlwaysRange(row) == Str(row[1]) \o <<"_">> \o Str(row[Len(row)])

\* lines 217-221: the file_name of one sub-batch
FileName(row) == IF Len(row) > 1
                 THEN Str(row[1]) \o <<"_">> \o Str(row[Len(row)])
                 ELSE Str(row[1])

\* csv.DictWriter(fieldnames=["bucket", "file_name"]).writerow: the fields
\* of one CSV line, in fieldnames order
CsvRow(bucket, file_name) == <<bucket, file_name>>

\* the header line writer.writeheader() would write
HeaderRow == <<<<"b", "u", "c", "k", "e", "t">>,
               <<"f", "i", "l", "e", "_", "n", "a", "m", "e">>>>

\* WriteRows with writer.writeheader() called first
WriteRowsWithHeader(rs, n, bucket) ==
    LET groups == batched(rs, n)
    IN  <<HeaderRow>> \o
        [k \in 1..Len(groups) |-> <<bucket, FileName(groups[k])>>]

\* lines 208-223: the lines of the CSV buffer (writeheader is never called)
WriteRows(rs, n, bucket) ==
    LET groups == batched(rs, n)
    IN  [k \in 1..Len(groups) |-> CsvRow(bucket, FileName(groups[k]))]

\* line 226: Key=f"{record_type}_filelist_{counter}.csv"
ObjectKey(c) == record_type \o <<"_filelist_">> \o Str(c) \o <<".csv">>

\* s3_client.put_object: create or replace the object at key
PutObject(bucket, key, body) ==
    {o \in bucket : o.Key # key} \cup {[Key |-> key, Body |-> body]}

\* the page's count stored instead of the running total
ProcessedOverwritten(done, n) == n

\* line 244: records_processed + record_count
ProcessedAfter(done, n) == done + n

\* HsetProgress with records_processed stored under last_pk
HsetProgressSwapped(h, lpk, c, n) ==
    [h EXCEPT !.last_pk = PyStr(Str(n)),
              !.next_iteration_counter = PyStr(Str(c)),
              !.records_processed = PyStr(Str(lpk))]

\* HsetProgress without next_iteration_counter in the mapping
HsetProgressNoCounter(h, lpk, c, n) ==
    [h EXCEPT !.last_pk = PyStr(Str(lpk)),
              !.records_processed = PyStr(Str(n))]

\* lines 239-246: r.hset(key, mapping={...}), one HSET command
HsetProgress(h, lpk, c, n) ==
    [h EXCEPT !.last_pk = PyStr(Str(lpk)),
              !.next_iteration_counter = PyStr(Str(c)),
              !.records_processed = PyStr(Str(n))]

\* the counter persisted as soon as it is incremented
RedisAfterAdvanceEager(h, c) ==
    [h EXCEPT !.next_iteration_counter = PyStr(Str(c))]

\* lines 231-236 touch no Redis field
RedisAfterAdvance(h, c) == h

\* only the progress fields removed, total_records left behind
RedisHdelProgress(h) ==
    [h EXCEPT !.last_pk = None, !.next_iteration_counter = None,
              !.records_processed = None]

\* line 259: r.delete(key)
RedisDelete(h) == EmptyHash

Running(p) == pc[p] \notin {"idle", "aborted", "done"}

Progress(h) == <<h.last_pk, h.next_iteration_counter, h.records_processed>>

\* nothing has run yet: no checkpoint, an empty bucket, no process
InitRest(limit) ==
    /\ redis = EmptyHash
    /\ s3 = {}
    /\ pc = [p \in Procs |-> "idle"]
    /\ last_pk = [p \in Procs |-> None]
    /\ total_number_of_records = [p \in Procs |-> 0]
    /\ counter = [p \in Procs |-> 0]
    /\ rows = [p \in Procs |-> <<>>]
    /\ record_count = [p \in Procs |-> 0]
    /\ csvfile = [p \in Procs |-> <<>>]
    /\ records_processed = [p \in Procs |-> 0]
    /\ hist = [runs |-> 0,
               limit |-> limit,
               startPk |-> [p \in Procs |-> None],
               runRead |-> [p \in Procs |-> {}],
               runWritten |-> [p \in Procs |-> {}],
               runKeys |-> [p \in Procs |-> {}],
               sawEmpty |-> [p \in Procs |-> FALSE],
               priorCkpt |-> [p \in Procs |-> {}],
               jobEmittedBy |-> [p \in Procs |-> {}],
               jobKeysBy |-> [p \in Procs |-> {}],
               ckptIds |-> {},
               lastDone |-> Progress(EmptyHash),
               overlap |-> FALSE,
               together |-> FALSE,
               dupEmit |-> FALSE,
               overwritten |-> FALSE,
               reUploaded |-> FALSE]

Init ==
    /\ table \in SUBSET IdUniverse
    /\ query_batch_size \in 1..MaxBatch
    /\ lambda_record_size \in 1..MaxLambda
    /\ InitRest(MaxRuns)
    /\ IdleMiddleware
    /\ IdleSort

\* the process has ended: its locals are gone
Exit(p) ==
    /\ last_pk' = [last_pk EXCEPT ![p] = None]
    /\ total_number_of_records' = [total_number_of_records EXCEPT ![p] = 0]
    /\ counter' = [counter EXCEPT ![p] = 0]
    /\ rows' = [rows EXCEPT ![p] = <<>>]
    /\ record_count' = [record_count EXCEPT ![p] = 0]
    /\ csvfile' = [csvfile EXCEPT ![p] = <<>>]
    /\ records_processed' = [records_processed EXCEPT ![p] = 0]

\* line 166: the command is invoked and reads last_pk from the checkpoint
Invoke(p) ==
    /\ ~Running(p)
    /\ hist.runs < hist.limit
    /\ pc' = [pc EXCEPT ![p] = "total"]
    /\ last_pk' = [last_pk EXCEPT ![p] = redis.last_pk]
    /\ hist' = [hist EXCEPT !.runs = @ + 1,
                            !.startPk[p] = redis.last_pk,
                            !.runRead[p] = {},
                            !.runWritten[p] = {},
                            !.runKeys[p] = {},
                            !.sawEmpty[p] = FALSE,
                            !.priorCkpt[p] = hist.ckptIds,
                            !.overlap = @ \/ \E q \in Procs \ {p} : Running(q),
                            !.together = \E q \in Procs \ {p} : Running(q)]
    /\ UNCHANGED otherVars
    /\ UNCHANGED <<table, query_batch_size, lambda_record_size, redis, s3,
                   total_number_of_records, counter, rows, record_count,
                   csvfile, records_processed>>

\* lines 172-175: total_number_of_records = int(hget(total_records) or 0)
ReadTotal(p) ==
    /\ pc[p] = "total"
    /\ total_number_of_records' =
           [total_number_of_records EXCEPT ![p] =
                IntOrZero(redis.total_records)]
    /\ pc' = [pc EXCEPT ![p] = IF IntOrZero(redis.total_records) = 0
                               THEN "count" ELSE "counter"]
    /\ UNCHANGED otherVars
    /\ UNCHANGED <<table, query_batch_size, lambda_record_size, redis, s3,
                   last_pk, counter, rows, record_count, csvfile,
                   records_processed, hist>>

\* lines 176-178: the count query, run when no total is cached
CountRecords(p) ==
    /\ pc[p] = "count"
    /\ total_number_of_records' =
           [total_number_of_records EXCEPT ![p] =
                get_total_number_of_records(table)]
    /\ pc' = [pc EXCEPT ![p] = "cache_total"]
    /\ UNCHANGED otherVars
    /\ UNCHANGED <<table, query_batch_size, lambda_record_size, redis, s3,
                   last_pk, counter, rows, record_count, csvfile,
                   records_processed, hist>>

\* lines 179-183: r.hset(key, "total_records", total_number_of_records)
CacheTotal(p) ==
    /\ pc[p] = "cache_total"
    /\ redis' = [redis EXCEPT !.total_records =
                     PyStr(Str(total_number_of_records[p]))]
    /\ pc' = [pc EXCEPT ![p] = "counter"]
    /\ UNCHANGED otherVars
    /\ UNCHANGED <<table, query_batch_size, lambda_record_size, s3, last_pk,
                   total_number_of_records, counter, rows, record_count,
                   csvfile, records_processed, hist>>

\* lines 185-188: counter = int(hget(next_iteration_counter) or 0)
ReadCounter(p) ==
    /\ pc[p] = "counter"
    /\ counter' = [counter EXCEPT ![p] =
                       IntOrZero(redis.next_iteration_counter)]
    /\ pc' = [pc EXCEPT ![p] = "query"]
    /\ UNCHANGED otherVars
    /\ UNCHANGED <<table, query_batch_size, lambda_record_size, redis, s3,
                   last_pk, total_number_of_records, rows, record_count,
                   csvfile, records_processed, hist>>

\* lines 190-205: one page query, and the break on an empty page
Query(p) ==
    /\ pc[p] = "query"
    /\ LET page == Page(table, last_pk[p], query_batch_size)
       IN  /\ rows' = [rows EXCEPT ![p] = page]
           /\ record_count' = [record_count EXCEPT ![p] = Len(page)]
           /\ pc' = [pc EXCEPT ![p] =
                         IF PageIsLast(Len(page), query_batch_size)
                         THEN "delete" ELSE "build"]
           /\ hist' = [hist EXCEPT !.runRead[p] = @ \cup Range(page),
                                   !.sawEmpty[p] = @ \/ Len(page) = 0]
    /\ UNCHANGED otherVars
    /\ UNCHANGED <<table, query_batch_size, lambda_record_size, redis, s3,
                   last_pk, total_number_of_records, counter, csvfile,
                   records_processed>>

\* lines 208-223: the CSV buffer is written
BuildCsv(p) ==
    /\ pc[p] = "build"
    /\ csvfile' = [csvfile EXCEPT ![p] =
                       WriteRows(rows[p], lambda_record_size, bucket_name)]
    /\ pc' = [pc EXCEPT ![p] = "upload"]
    /\ UNCHANGED otherVars
    /\ UNCHANGED <<table, query_batch_size, lambda_record_size, redis, s3,
                   last_pk, total_number_of_records, counter, rows,
                   record_count, records_processed, hist>>

\* lines 225-229: put_object returns
Upload(p) ==
    /\ pc[p] = "upload"
    /\ s3' = PutObject(s3, ObjectKey(counter[p]), csvfile[p])
    /\ pc' = [pc EXCEPT ![p] = "advance"]
    /\ hist' = [hist EXCEPT
           !.runWritten[p] = @ \cup Range(rows[p]),
           !.runKeys[p] = @ \cup {ObjectKey(counter[p])},
           !.jobEmittedBy[p] = @ \cup Range(rows[p]),
           !.jobKeysBy[p] = @ \cup {ObjectKey(counter[p])},
           !.dupEmit = @ \/ (hist.together /\ \E q \in Procs \ {p} :
                                Range(rows[p]) \cap hist.runWritten[q] # {}),
           !.overwritten = @ \/ (hist.together /\ \E q \in Procs \ {p} :
                                ObjectKey(counter[p]) \in hist.runKeys[q]),
           !.reUploaded = @ \/ (/\ ObjectKey(counter[p]) \in hist.jobKeysBy[p]
                                /\ ObjectKey(counter[p]) \notin hist.runKeys[p])]
    /\ UNCHANGED otherVars
    /\ UNCHANGED <<table, query_batch_size, lambda_record_size, redis,
                   last_pk, total_number_of_records, counter, rows,
                   record_count, csvfile, records_processed>>

\* lines 231-236: counter, last_pk and records_processed are advanced locally
Advance(p) ==
    /\ pc[p] = "advance"
    /\ counter' = [counter EXCEPT ![p] = @ + 1]
    /\ last_pk' = [last_pk EXCEPT ![p] = PyInt(rows[p][Len(rows[p])])]
    /\ records_processed' = [records_processed EXCEPT ![p] =
                                 IntOrZero(redis.records_processed)]
    /\ redis' = RedisAfterAdvance(redis, counter[p] + 1)
    /\ pc' = [pc EXCEPT ![p] = "save"]
    /\ UNCHANGED otherVars
    /\ UNCHANGED <<table, query_batch_size, lambda_record_size, s3,
                   total_number_of_records, rows, record_count, csvfile, hist>>

\* lines 239-246: the checkpoint write that completes an iteration
Save(p) ==
    /\ pc[p] = "save"
    /\ redis' = HsetProgress(redis, last_pk[p].v, counter[p],
                             ProcessedAfter(records_processed[p],
                                            record_count[p]))
    /\ pc' = [pc EXCEPT ![p] = "query"]
    /\ hist' = [hist EXCEPT !.ckptIds = @ \cup Range(rows[p]),
                            !.lastDone = Progress(redis')]
    /\ UNCHANGED otherVars
    /\ UNCHANGED <<table, query_batch_size, lambda_record_size, s3, last_pk,
                   total_number_of_records, counter, rows, record_count,
                   csvfile, records_processed>>

\* line 259: the checkpoint is deleted after the loop; the job is over
Delete(p) ==
    /\ pc[p] = "delete"
    /\ redis' = RedisDelete(redis)
    /\ pc' = [pc EXCEPT ![p] = "done"]
    /\ hist' = [hist EXCEPT !.jobEmittedBy = [q \in Procs |-> {}],
                            !.jobKeysBy = [q \in Procs |-> {}],
                            !.ckptIds = {},
                            !.lastDone = Progress(EmptyHash)]
    /\ Exit(p)
    /\ UNCHANGED otherVars
    /\ UNCHANGED <<table, query_batch_size, lambda_record_size, s3>>

\* an unhandled error (query, CSV build, upload, cache) or the process being
\* terminated: handle has no except/finally, the process ends where it is
Abort(p) ==
    /\ Running(p)
    /\ pc' = [pc EXCEPT ![p] = "aborted"]
    /\ Exit(p)
    /\ UNCHANGED otherVars
    /\ UNCHANGED <<table, query_batch_size, lambda_record_size, redis, s3,
                   hist>>

Step(p) ==
    \/ Invoke(p)
    \/ ReadTotal(p)
    \/ CountRecords(p)
    \/ CacheTotal(p)
    \/ ReadCounter(p)
    \/ Query(p)
    \/ BuildCsv(p)
    \/ Upload(p)
    \/ Advance(p)
    \/ Save(p)
    \/ Delete(p)

\* one operator at a time runs the command, re-invoking it after a stop
Next == Step(1) \/ Abort(1)

Spec == Init /\ [][Next]_vars

\* two processes run the command for the same record type at once
NextConc == \E p \in Procs : Step(p) \/ Abort(p)

InitConc ==
    /\ table \in SUBSET {IdStride * k : k \in 1..ConcIds}
    /\ query_batch_size = ConcBatch
    /\ lambda_record_size = 1
    /\ InitRest(ConcRuns)
    /\ IdleMiddleware
    /\ IdleSort

SpecConc == InitConc /\ [][NextConc]_vars

(***************************************************************************)
(* Properties of the export.                                               *)
(***************************************************************************)
\* ids uploaded in the current job (since the checkpoint was last deleted)
JobEmitted == UNION {hist.jobEmittedBy[p] : p \in Procs}

\* C1: a run that starts from a checkpoint holding last_pk = p reads and
\* writes only identifiers strictly greater than p, and writes none of the
\* identifiers of the manifests whose checkpoint write had completed.
ResumeNeverReEmits ==
    \A p \in Procs :
        Truthy(hist.startPk[p]) =>
            /\ \A i \in hist.runRead[p] \cup hist.runWritten[p] :
                   i > ParseInt(hist.startPk[p].v)
            /\ hist.runWritten[p] \cap hist.priorCkpt[p] = {}

\* a re-invoked run found last_pk and has uploaded a manifest of its own
ResumedRunHasWritten ==
    /\ hist.runs >= 2
    /\ Truthy(hist.startPk[1])
    /\ hist.priorCkpt[1] # {}
    /\ hist.runWritten[1] # {}

\* C2 as stated: at every moment last_pk is the maximum identifier of the
\* manifests whose upload has returned, and absent when there is none.
LastPkIsMaxCommitted ==
    redis.last_pk = IF JobEmitted = {} THEN None
                    ELSE PyStr(Str(SetMax(JobEmitted)))

\* C2 amended: last_pk is the maximum identifier of the committed manifests
\* whose checkpoint write has completed too (absent when there is none); it
\* never exceeds the maximum committed identifier, and equals it whenever no
\* upload is awaiting its checkpoint write.
LastPkIsMaxCheckpointed ==
    /\ hist.ckptIds \subseteq JobEmitted
    /\ redis.last_pk = IF hist.ckptIds = {} THEN None
                       ELSE PyStr(Str(SetMax(hist.ckptIds)))
    /\ (hist.runs = 1 /\ pc[1] \in {"query", "build", "upload", "delete"})
           => LastPkIsMaxCommitted

\* the window: a second manifest is committed, last_pk still names the first
UploadAwaitsCheckpoint ==
    /\ pc[1] = "advance"
    /\ hist.ckptIds # {}
    /\ hist.ckptIds # JobEmitted

\* C3: after an abort the three progress fields are as the last completed
\* iteration wrote them (absent if none completed), and the next run's first
\* query starts from that last_pk.
AbortKeepsLastCheckpoint ==
    \A p \in Procs :
        /\ pc[p] = "aborted" => Progress(redis) = hist.lastDone
        /\ (pc[p] \in {"total", "count", "cache_total", "counter", "query"}
                /\ hist.runRead[p] = {}
                /\ ~hist.sawEmpty[p])
               => last_pk[p] = hist.lastDone[1]

\* a run that completed an iteration aborted after its next upload
AbortedAfterUpload ==
    /\ pc[1] = "aborted"
    /\ hist.lastDone # Progress(EmptyHash)
    /\ hist.ckptIds # JobEmitted

\* C4: a step that removes the checkpoint key is the final step of a run
\* that has seen a page query return zero rows.
DeleteOnlyAfterEmptyPage ==
    [][(KeyExists(redis) /\ ~KeyExists(redis'))
          => \E p \in Procs : /\ pc[p] = "delete"
                              /\ pc'[p] = "done"
                              /\ hist.sawEmpty[p]]_vars

\* a run uploaded manifests, saw the empty page and deleted the checkpoint
DeletedAfterFullScan ==
    /\ pc[1] = "done"
    /\ ~KeyExists(redis)
    /\ hist.sawEmpty[1]
    /\ hist.runWritten[1] # {}

\* C5: a run whose first page query returns zero rows uploads nothing and
\* ends with the whole checkpoint key, total_records included, deleted.
EmptyScanNoUpload ==
    \A p \in Procs :
        /\ (pc[p] \in {"delete", "done"} /\ hist.runRead[p] = {})
               => hist.runKeys[p] = {}
        /\ (pc[p] = "done" /\ hist.runRead[p] = {}) => redis = EmptyHash

\* a run over an empty table has finished
EmptyTableRunDone ==
    /\ table = {}
    /\ pc[1] = "done"
    /\ hist.sawEmpty[1]
    /\ s3 = {}

CeilDiv(n, m) == (n + m - 1) \div m

\* C6 as stated: every uploaded body starts with the header bucket,file_name.
ManifestStartsWithHeader ==
    \A o \in s3 : Len(o.Body) >= 1 /\ o.Body[1] = HeaderRow

\* C6 amended: every uploaded body is a CSV with no header row: one data row
\* (bucket first, file_name second) per sub-batch and nothing else.
ManifestHasNoHeader ==
    /\ \A o \in s3 : \A i \in 1..Len(o.Body) :
           /\ o.Body[i] # HeaderRow
           /\ Len(o.Body[i]) = 2
           /\ o.Body[i][1] = bucket_name
    /\ \A p \in Procs : pc[p] = "advance" =>
           \E o \in s3 : /\ o.Key = ObjectKey(counter[p])
                         /\ Len(o.Body) =
                                CeilDiv(Len(rows[p]), lambda_record_size)

\* a manifest of two sub-batches is in the bucket
TwoRowManifestUploaded ==
    /\ pc[1] = "advance"
    /\ \E o \in s3 : o.Key = ObjectKey(counter[1]) /\ Len(o.Body) = 2

\* the k-th manifest row of a page rs cut into groups of m
ExpectedRow(rs, m, k) ==
    LET lo == (k - 1) * m + 1
        hi == IF k * m < Len(rs) THEN k * m ELSE Len(rs)
    IN  <<bucket_name,
          IF hi = lo THEN Str(rs[lo]) ELSE Str(rs[lo]) \o <<"_">> \o Str(rs[hi])>>

\* C7: the rows written for a page of N ids and sub-batch size M are, in
\* order, the ceil(N/M) consecutive groups of M ids (the last maybe shorter),
\* each with the bucket and file_name `first` or `first_last`.
ManifestRowsAreGroups ==
    \A p \in Procs :
        pc[p] \in {"upload", "advance", "save"} =>
            /\ Len(csvfile[p]) = CeilDiv(Len(rows[p]), lambda_record_size)
            /\ \A k \in 1..Len(csvfile[p]) :
                   csvfile[p][k] = ExpectedRow(rows[p], lambda_record_size, k)
            /\ pc[p] = "advance" =>
                   [Key |-> ObjectKey(counter[p]), Body |-> csvfile[p]] \in s3

\* a page of three ids cut in groups of two: a full group and a short one
ShortLastGroupWritten ==
    /\ pc[1] = "advance"
    /\ Len(rows[1]) = 3
    /\ lambda_record_size = 2
    /\ Len(csvfile[1]) = 2

\* records_processed is not the number of distinct ids the checkpoint covers
RecordsProcessedOff ==
    /\ Truthy(redis.records_processed)
    /\ ParseInt(redis.records_processed.v) # Cardinality(hist.ckptIds)

Corrupt == hist.dupEmit \/ hist.overwritten \/ RecordsProcessedOff

\* C8: two runs in progress at once can corrupt the progress tracking: a
\* state is reached where two simultaneous runs wrote the same ids, one
\* overwrote the other's manifest under the same key, and records_processed
\* is off the number of distinct ids.  records_processed is never off, and
\* no id or key is written by two simultaneous runs, unless two runs
\* overlapped (runs that stop and are re-invoked one after the other keep the
\* count right); and two runs that have each uploaded the page after the same
\* last_pk under the same counter have written the same ids to the same key.
CorruptionNeedsOverlap ==
    /\ Corrupt => hist.overlap
    /\ \A p \in Procs : \A q \in Procs \ {p} :
           (/\ pc[p] = "advance" /\ pc[q] = "advance"
            /\ counter[p] = counter[q]
            /\ Truthy(last_pk[p]) = Truthy(last_pk[q])
            /\ Truthy(last_pk[p]) => SqlInt(last_pk[p]) = SqlInt(last_pk[q]))
               => /\ rows[p] = rows[q]
                  /\ hist.dupEmit
                  /\ hist.overwritten
                  /\ hist.overlap

\* two overlapping runs wrote the same ids under the same key and
\* records_processed counts them twice
ConcurrentRunsCorrupt ==
    /\ hist.overlap
    /\ hist.dupEmit
    /\ hist.overwritten
    /\ RecordsProcessedOff

(***************************************************************************)
(* MaintenanceModeMiddleware: cl/lib/middleware.py                         *)
(***************************************************************************)
MaxRequests == 2    \* requests served in one behaviour

SERVICE_UNAVAILABLE == 503

\* a request either has no user attribute, or carries a user
Requests == {[has_user |-> FALSE, is_staff |-> FALSE],
             [has_user |-> TRUE, is_staff |-> FALSE],
             [has_user |-> TRUE, is_staff |-> TRUE]}

\* what self.get_response(request) may return
DownstreamResponses ==
    {[status |-> st, template |-> "view", headers |-> hd] :
         st \in {200, 404}, hd \in {{}, {"Cache-Control: max-age=600"}}}

\* add_never_cache_headers(r)
NeverCacheHeaders ==
    {"Expires",
     "Cache-Control: max-age=0, no-cache, no-store, must-revalidate, private"}

\* lines 46-53: render maintenance.html with status 503, never cached
MaintenancePage ==
    [status |-> SERVICE_UNAVAILABLE, template |-> "maintenance.html",
     headers |-> NeverCacheHeaders]

\* __call__ letting every request with a user through when staff are allowed
MiddlewareCallAnyUser(request, response, allow_staff) ==
    IF request.has_user /\ allow_staff THEN response ELSE MaintenancePage

\* lines 40-53: MaintenanceModeMiddleware.__call__
MiddlewareCall(request, response, allow_staff) ==
    IF request.has_user /\ (allow_staff /\ request.is_staff)
    THEN response
    ELSE MaintenancePage

\* lines 35-38: __init__ raises MiddlewareNotUsed unless maintenance is on
Construct ==
    /\ mw.state = "unbuilt"
    /\ mw' = [mw EXCEPT !.state = IF ~settings.MAINTENANCE_MODE_ENABLED
                                  THEN "not_used" ELSE "active"]
    /\ UNCHANGED <<settings, opinions, srt, driverVars>>

\* one request through the constructed middleware
Serve ==
    /\ mw.state = "active"
    /\ Len(mw.log) < MaxRequests
    /\ \E request \in Requests, response \in DownstreamResponses :
           mw' = [mw EXCEPT !.log = Append(@,
                      [request |-> request, downstream |-> response,
                       returned |-> MiddlewareCall(request, response,
                           settings.MAINTENANCE_MODE_ALLOW_STAFF)])]
    /\ UNCHANGED <<settings, opinions, srt, driverVars>>

\* nothing else of the module is running
IdleDriver ==
    /\ table = {}
    /\ query_batch_size = 1
    /\ lambda_record_size = 1
    /\ InitRest(0)

InitMiddleware ==
    /\ settings \in [MAINTENANCE_MODE_ENABLED : BOOLEAN,
                     MAINTENANCE_MODE_ALLOW_STAFF : BOOLEAN]
    /\ mw = [state |-> "unbuilt", log |-> <<>>]
    /\ IdleSort
    /\ IdleDriver

NextMiddleware == Construct \/ Serve

SpecMiddleware == InitMiddleware /\ [][NextMiddleware]_vars

\* C9: with MAINTENANCE_MODE_ENABLED false the constructor raises
\* MiddlewareNotUsed and the middleware serves nothing; with it true every
\* request gets the 503 never-cached maintenance page, except a request whose
\* user is staff while MAINTENANCE_MODE_ALLOW_STAFF is true, which gets the
\* downstream response unchanged (a request with no user gets the 503 page).
MaintenanceModeContract ==
    /\ mw.state = "not_used" => ~settings.MAINTENANCE_MODE_ENABLED
    /\ mw.state = "active" => settings.MAINTENANCE_MODE_ENABLED
    /\ ~settings.MAINTENANCE_MODE_ENABLED => mw.log = <<>>
    /\ \A i \in 1..Len(mw.log) :
           LET e == mw.log[i]
               staff_allowed == /\ e.request.has_user
                                /\ e.request.is_staff
                                /\ settings.MAINTENANCE_MODE_ALLOW_STAFF
           IN  /\ staff_allowed => e.returned = e.downstream
               /\ ~staff_allowed =>
                      /\ e.returned.status = 503
                      /\ e.returned.template = "maintenance.html"
                      /\ e.returned.headers = NeverCacheHeaders

\* staff were let through, and a request with no user got the 503 page
StaffPassedOthersBlocked ==
    /\ settings.MAINTENANCE_MODE_ALLOW_STAFF
    /\ \E i \in 1..Len(mw.log) :
           mw.log[i].request.is_staff /\ mw.log[i].returned.status = 200
    /\ \E i \in 1..Len(mw.log) :
           ~mw.log[i].request.has_user /\ mw.log[i].returned.status = 503

(***************************************************************************)
(* sort_columbia_opinions: update_opinions_order.py                        *)
(***************************************************************************)
MaxOpinions == 3    \* Opinion rows
MaxClusters == 2    \* Columbia clusters
MaxMatch == 1       \* match_text finds an opinion at an offset in 0..MaxMatch

\* Opinion.type values, as cl/search/models.py defines them
COMBINED == <<"0", "1", "0", "c", "o", "m", "b", "i", "n", "e", "d">>
LEAD == <<"0", "2", "0", "l", "e", "a", "d">>
CONCURRENCE == <<"0", "3", "0", "c", "o", "n", "c", "u", "r", "r", "e", "n",
                 "c", "e">>
DISSENT == <<"0", "4", "0", "d", "i", "s", "s", "e", "n", "t">>

OpinionTypes == {COMBINED, LEAD, CONCURRENCE, DISSENT}

\* the characters of the type values in code point order
CharOrder == <<"0", "1", "2", "3", "4", "5", "6", "7", "8", "9",
               "a", "b", "c", "d", "e", "f", "g", "h", "i", "j", "k", "l", "m",
               "n", "o", "p", "q", "r", "s", "t", "u", "v", "w", "x", "y", "z">>

CodePoint(c) == CHOOSE i \in 1..Len(CharOrder) : CharOrder[i] = c

RECURSIVE StrLess(_, _)
\* Python's a < b on two str
StrLess(a, b) ==
    IF Len(b) = 0 THEN FALSE
    ELSE IF Len(a) = 0 THEN TRUE
    ELSE IF a[1] = b[1] THEN StrLess(Tail(a), Tail(b))
    ELSE CodePoint(a[1]) < CodePoint(b[1])

RECURSIVE InsertByType(_, _, _)
\* x placed after every element whose type is not greater (sorted is stable)
InsertByType(ops, s, x) ==
    IF Len(s) = 0 THEN <<x>>
    ELSE IF StrLess(ops[x].type, ops[Head(s)].type)
         THEN <<x>> \o s
         ELSE <<Head(s)>> \o InsertByType(ops, Tail(s), x)

RECURSIVE SortedByType(_, _)
\* line 194: sorted(opinions, key=lambda fields: fields[1])
SortedByType(ops, s) ==
    IF Len(s) = 0 THEN <<>>
    ELSE InsertByType(ops, SortedByType(ops, SubSeq(s, 1, Len(s) - 1)),
                      s[Len(s)])

RECURSIVE InsertByMatch(_, _, _)
InsertByMatch(ops, s, x) ==
    IF Len(s) = 0 THEN <<x>>
    ELSE IF ops[x].match_index < ops[Head(s)].match_index
         THEN <<x>> \o s
         ELSE <<Head(s)>> \o InsertByMatch(ops, Tail(s), x)

RECURSIVE match_text(_, _)
\* lines 118-151: the opinions sorted by the offset at which their text was
\* found in the Columbia file; the offset is an input of the model
match_text(ops, s) ==
    IF Len(s) = 0 THEN <<>>
    ELSE InsertByMatch(ops, match_text(ops, SubSeq(s, 1, Len(s) - 1)),
                       s[Len(s)])

\* lines 176-180: Opinion.objects.filter(cluster=...).exclude(local_path="")
\* has no order_by: the rows come in whatever order the database returns
\* them, so this is the set of the orders the query may give
ClusterOpinions(ops, c) ==
    LET found == {i \in DOMAIN ops :
                     ops[i].cluster = c /\ ops[i].has_local_path}
    IN  {s \in [1..Cardinality(found) -> found] : Range(s) = found}

\* line 181: op_types
OpTypes(ops, s) == [k \in 1..Len(s) |-> ops[s[k]].type]

\* lines 186-190: two opinions of two types, one of them the lead
OneLeadOfTwo(op_types) ==
    /\ Len(op_types) = 2
    /\ LEAD \in Range(op_types)
    /\ Cardinality(Range(op_types)) = 2

InitSort ==
    /\ opinions \in [1..MaxOpinions ->
                        [cluster : 1..MaxClusters, type : OpinionTypes,
                         has_local_path : BOOLEAN, match_index : 0..MaxMatch,
                         ordering_key : {0}]]
    /\ srt = [pc |-> "idle", todo |-> <<>>, cluster |-> 0, branch |-> "none",
              loaded |-> <<>>, ordered_opinions |-> <<>>, order_key |-> 0,
              completed |-> 0]
    /\ IdleMiddleware
    /\ IdleDriver

\* lines 160-173: the Columbia clusters, by id, after skip_until
StartSort ==
    /\ srt.pc = "idle"
    /\ \E skip_until \in 0..(MaxClusters - 1) :
           srt' = [srt EXCEPT !.pc = "loop",
                              !.todo = SortedSeq({c \in 1..MaxClusters :
                                                      c > skip_until})]
    /\ UNCHANGED <<opinions, settings, mw, driverVars>>

\* lines 182-185: fewer than two opinions, the cluster is skipped
SkipCluster ==
    /\ srt.pc = "loop"
    /\ Len(srt.todo) > 0
    /\ \E loaded \in ClusterOpinions(opinions, Head(srt.todo)) :
           /\ Len(loaded) < 2
           /\ srt' = [srt EXCEPT !.todo = Tail(@), !.cluster = Head(srt.todo),
                                 !.branch = "skip", !.loaded = loaded,
                                 !.ordered_opinions = <<>>]
    /\ UNCHANGED <<opinions, settings, mw, driverVars>>

\* lines 186-194: the two opinions are sorted by type
SortByType ==
    /\ srt.pc = "loop"
    /\ Len(srt.todo) > 0
    /\ \E loaded \in ClusterOpinions(opinions, Head(srt.todo)) :
           /\ Len(loaded) >= 2
           /\ OneLeadOfTwo(OpTypes(opinions, loaded))
           /\ srt' = [srt EXCEPT !.pc = "assign", !.cluster = Head(srt.todo),
                                 !.branch = "lead", !.loaded = loaded,
                                 !.ordered_opinions =
                                     SortedByType(opinions, loaded),
                                 !.order_key = 1]
    /\ UNCHANGED <<opinions, settings, mw, driverVars>>

\* lines 195-197: the opinions are sorted by their place in the file
SortByLocation ==
    /\ srt.pc = "loop"
    /\ Len(srt.todo) > 0
    /\ \E loaded \in ClusterOpinions(opinions, Head(srt.todo)) :
           /\ Len(loaded) >= 2
           /\ ~OneLeadOfTwo(OpTypes(opinions, loaded))
           /\ srt' = [srt EXCEPT !.pc = "assign", !.cluster = Head(srt.todo),
                                 !.branch = "location", !.loaded = loaded,
                                 !.ordered_opinions =
                                     match_text(opinions, loaded),
                                 !.order_key = 1]
    /\ UNCHANGED <<opinions, settings, mw, driverVars>>

\* lines 199-204: the next opinion gets the next ordering_key and is saved
AssignKey ==
    /\ srt.pc = "assign"
    /\ srt.order_key <= Len(srt.ordered_opinions)
    /\ opinions' = [opinions EXCEPT
           ![srt.ordered_opinions[srt.order_key]].ordering_key = srt.order_key]
    /\ srt' = [srt EXCEPT !.order_key = @ + 1]
    /\ UNCHANGED <<settings, mw, driverVars>>

\* lines 206-211: the cluster is done
FinishCluster ==
    /\ srt.pc = "assign"
    /\ srt.order_key > Len(srt.ordered_opinions)
    /\ srt' = [srt EXCEPT !.pc = "loop", !.todo = Tail(@),
                          !.completed = @ + 1]
    /\ UNCHANGED <<opinions, settings, mw, driverVars>>

\* line 213: every cluster has been visited
EndSort ==
    /\ srt.pc = "loop"
    /\ Len(srt.todo) = 0
    /\ srt' = [srt EXCEPT !.pc = "done"]
    /\ UNCHANGED <<opinions, settings, mw, driverVars>>

NextSort ==
    \/ StartSort
    \/ SkipCluster
    \/ SortByType
    \/ SortByLocation
    \/ AssignKey
    \/ FinishCluster
    \/ EndSort

SpecSort == InitSort /\ [][NextSort]_vars

\* C10: once a cluster with exactly two opinions with a local_path, of two
\* types one of which is the lead type, has been ordered, the lead opinion
\* has ordering_key 1 and the other ordering_key 2, whatever its type.
LeadOpinionOrderedFirst ==
    (srt.branch = "lead" /\ srt.pc = "loop") =>
        \A k \in 1..Len(srt.loaded) :
            opinions[srt.loaded[k]].ordering_key =
                IF opinions[srt.loaded[k]].type = LEAD THEN 1 ELSE 2

(***************************************************************************)
(* Stopping and re-running the export.                                     *)
(***************************************************************************)
\* the k-th object of one uninterrupted export of table t: the k-th group of
\* lim ids in ascending order, cut in rows of m, under counter k - 1
UninterruptedObject(t, lim, m, k) ==
    LET ids == SortedSeq(t)
        hi == IF k * lim < Len(ids) THEN k * lim ELSE Len(ids)
        chunk == SubSeq(ids, (k - 1) * lim + 1, hi)
    IN  [Key |-> ObjectKey(k - 1),
         Body |-> [j \in 1..CeilDiv(Len(chunk), m) |-> ExpectedRow(chunk, m, j)]]

\* the bucket one uninterrupted export of table t leaves
UninterruptedBucket(t, lim, m) ==
    {UninterruptedObject(t, lim, m, k) : k \in 1..CeilDiv(Cardinality(t), lim)}

\* C11: however often the export is stopped and re-run (in particular after
\* an upload and before its checkpoint write), over an unchanged table and
\* with the same options the bucket never holds an object a single
\* uninterrupted run would not write, and when a run completes the bucket
\* holds exactly the keys and bodies of a single uninterrupted run.
CrashEquivalentBucket ==
    /\ s3 \subseteq UninterruptedBucket(table, query_batch_size,
                                        lambda_record_size)
    /\ pc[1] = "done" =>
           s3 = UninterruptedBucket(table, query_batch_size,
                                    lambda_record_size)

\* the first run stopped after an upload and before its checkpoint write, the
\* second re-uploaded that batch under the same key and completed an export
\* of more than one object
CompletedAfterReUpload ==
    /\ pc[1] = "done"
    /\ hist.runs = 2
    /\ hist.reUploaded
    /\ Cardinality(s3) >= 2

====
